---- MODULE Spec2Model ----
(***************************************************************************)
(* A model of the bvp v1 meter-data API: the ingestion pipeline            *)
(* (create_connection_and_value_groups), the query pipeline                *)
(* (collect_connection_and_value_groups) and the response compaction       *)
(* (groups_to_dict / unique_ever_seen).                                    *)
(*                                                                         *)
(* Time is counted in minutes.  Requests arrive on the 15-minute grid and  *)
(* the number of values divides the duration, so timedelta division is     *)
(* exact.                                                                  *)
(***************************************************************************)
EXTENDS Integers, Sequences, FiniteSets, TLC

\* ------------------------------------------------------------------ bounds

\* groups_to_dict: number of (connection group, value group) pairs
MaxK == 3
\* groups_to_dict: longest connection group
MaxGroupLen == 2
\* groups_to_dict: longest value group
MaxDictN == 2
\* ingestion: number of connection groups of a request
MaxGroups == 2
\* ingestion: number of connections of a request, over all its groups
MaxConnections == 2
\* ingestion: number of values of a value group
MaxN == 2
\* number of requests in one behaviour
MaxRequests == 2
\* horizons: number of 15-minute slots of the longest request
MaxSlots == 4

\* --------------------------------------------------------- Python values

\* A Python object as it appears in a connection list: an individual
\* connection identifier, or a list of objects.
PyAtom(c) == [tag |-> "atom", atom |-> c, items |-> <<>>]
PyList(xs) == [tag |-> "list", atom |-> 0, items |-> xs]

\* A Python str, a sequence of character codes
PyStr(codes) == [tag |-> "str", atom |-> 0,
                 items |-> [i \in 1..Len(codes) |-> PyAtom(codes[i])]]

\* x[0] of a list or a str (a str of one character)
PyFirst(x) ==
    IF x.tag = "str"
    THEN [tag |-> "str", atom |-> 0, items |-> <<x.items[1]>>]
    ELSE x.items[1]

\* isinstance(x, list)
IsList(x) == x.tag = "list"

\* len(x) of a list or a str
PyLen(x) == Len(x.items)

\* A connection group List[str] as a Python list of identifiers
ConnectionGroup(ids) == PyList([i \in 1..Len(ids) |-> PyAtom(ids[i])])

Min(a, b) == IF a <= b THEN a ELSE b

\* u.index(e): position of the first element of u equal to e (0: e not in u)
RECURSIVE IndexFrom(_, _, _)
IndexFrom(u, e, i) ==
    IF i > Len(u) THEN 0
    ELSE IF u[i] = e THEN i
    ELSE IndexFrom(u, e, i + 1)

\* (mutant) only the element seen last is compared
IndexOfLastOnly(u, e) ==
    IF Len(u) > 0 /\ u[Len(u)] = e THEN Len(u) ELSE 0

Index(u, e) == IndexFrom(u, e, 1)

\* s[idx] after one pass of the else branch of unique_ever_seen: the
\* selector element is appended, as one element, to the list at s[idx]
\* (which is first wrapped in a list when it is not one)
MergeSelector(us, selector_element) ==
    LET l == IF IsList(us) THEN us ELSE PyList(<<us>>)
    IN  PyList(Append(l.items, selector_element))

\* The loop of unique_ever_seen from position i on, with u and s so far
RECURSIVE UniqueLoop(_, _, _, _, _)
UniqueLoop(iterable, selector, i, u, s) ==
    IF i > Min(Len(iterable), Len(selector)) THEN [u |-> u, s |-> s]
    ELSE IF Index(u, iterable[i]) = 0
         THEN UniqueLoop(iterable, selector, i + 1,
                         Append(u, iterable[i]), Append(s, selector[i]))
         ELSE LET idx == Index(u, iterable[i])
              IN  UniqueLoop(iterable, selector, i + 1, u,
                             [s EXCEPT ![idx] = MergeSelector(s[idx], selector[i])])

unique_ever_seen(iterable, selector) ==
    UniqueLoop(iterable, selector, 1, <<>>, <<>>)

\* One dictionary with a connection key and values: key is the name of the
\* key ("connection" or "connections") and conn the object stored under it
Entry(connection_group, value_group) ==
    IF PyLen(connection_group) = 1
    THEN [key |-> "connection", conn |-> PyFirst(connection_group),
          values |-> value_group]
    ELSE [key |-> "connections", conn |-> connection_group,
          values |-> value_group]

\* The response of groups_to_dict: flat (the keys of one Entry at top level)
\* or {"groups": [...]}
groups_to_dict(connection_groups, value_groups) ==
    LET us == unique_ever_seen(value_groups, connection_groups)
        vgs == us.u
        cgs == us.s
    IN  IF Len(vgs) = 1 /\ Len(cgs) = 1
        THEN [shape |-> "flat", entry |-> <<Entry(cgs[1], vgs[1])>>]
        ELSE [shape |-> "groups",
              entry |-> [i \in 1..Min(Len(cgs), Len(vgs)) |-> Entry(cgs[i], vgs[i])]]

\* ------------------------------------------------------- assets and users

\* Addresses a request may name: the connection addresses of assets 1..4,
\* and a string that is no connection address
Addresses ==
    [kind : {"connection"}, asset_id : {1, 2, 3, 4}]
        \cup {[kind |-> "malformed", asset_id |-> 0]}

\* validate_entity_address(connection, entity_type="connection"): the parsed
\* address, or None
None == [kind |-> "None", asset_id |-> 0]

validate_entity_address(connection) ==
    IF connection.kind = "connection" THEN connection ELSE None

\* The ids of get_assets(): the current user's assets.  Asset 3 is named by
\* the user's authorisation but has no row in the asset table.
user_asset_ids == {1, 2, 3}

\* The rows of the asset table.  Asset 4 belongs to another user.
AssetIdsWithRow == {1, 2, 4}

NoAsset == [id |-> 0, is_pure_consumer |-> FALSE, is_pure_producer |-> FALSE]

\* Asset.name of the rows: "a", "pv" and "ev"
AssetName(asset_id) ==
    IF asset_id = 1 THEN PyStr(<<97>>)
    ELSE IF asset_id = 2 THEN PyStr(<<112, 118>>)
    ELSE PyStr(<<101, 118>>)

\* Asset.entity_address of a row
EntityAddress(asset_id) == [tag |-> "ea", atom |-> asset_id, items |-> <<>>]

\* Asset.query.filter(Asset.id == asset_id).one_or_none()
AssetQuery(asset_id) ==
    IF asset_id \in AssetIdsWithRow
    THEN [id |-> asset_id,
          is_pure_consumer |-> asset_id \in {1, 4},
          is_pure_producer |-> asset_id = 2]
    ELSE NoAsset

\* DataSource of the current user
DataSourceId == 1

\* ------------------------------------------------------------- ingestion

\* timedelta / int: exact, the dividend being a multiple of the divisor
TimedeltaDiv(td, n) == td \div n

\* dt of the value at index j (from 0) of a value group of length n
ValueDatetime(start, duration, n, j) == start + TimedeltaDiv(j * duration, n)

\* (mutant) the horizon counts to the start of the slot, not to its end
ValueHorizonToSlotStart(horizon, rolling, start, duration, n, j) ==
    IF rolling
    THEN horizon
    ELSE horizon - ((start + duration) - ValueDatetime(start, duration, n, j))

\* (mutant) the difference of the end times is added, not deducted
ValueHorizonAdded(horizon, rolling, start, duration, n, j) ==
    IF rolling
    THEN horizon
    ELSE horizon + ((start + duration)
                    - (ValueDatetime(start, duration, n, j) + TimedeltaDiv(duration, n)))

\* h of the value at index j (from 0) of a value group of length n
ValueHorizon(horizon, rolling, start, duration, n, j) ==
    IF rolling
    THEN horizon
    ELSE horizon - ((start + duration)
                    - (ValueDatetime(start, duration, n, j) + TimedeltaDiv(duration, n)))

\* The Power object of the value at index j (from 0) of value_group
PowerObject(rq, asset, value_group, j) ==
    [datetime |-> ValueDatetime(rq.start, rq.duration, Len(value_group), j),
     value |-> value_group[j + 1] * (-1),
     horizon |-> ValueHorizon(rq.horizon, rq.rolling, rq.start, rq.duration,
                              Len(value_group), j),
     asset_id |-> asset.id,
     data_source_id |-> DataSourceId]

\* The Power objects of one connection, in the order they are appended
NewPowerObjects(rq, asset, value_group) ==
    [i \in 1..Len(value_group) |-> PowerObject(rq, asset, value_group, i - 1)]

\* end after the loop over the values: start, or the dt of the last value
WriteIntervalEnd(rq, value_group) ==
    IF Len(value_group) = 0
    THEN rq.start
    ELSE ValueDatetime(rq.start, rq.duration, Len(value_group), Len(value_group) - 1)

\* make_forecasting_jobs("Power", asset_id, start, end): one job descriptor
make_forecasting_jobs(kind, asset_id, start, end) ==
    <<[kind |-> kind, asset_id |-> asset_id, start |-> start, end |-> end]>>

\* The forecasting jobs of one connection
NewForecastingJobs(rq, asset_id, value_group) ==
    IF WriteIntervalEnd(rq, value_group) > rq.start
    THEN make_forecasting_jobs("Power", asset_id, rq.start,
                               WriteIntervalEnd(rq, value_group))
    ELSE <<>>

\* (mutant) the signs are checked with all() in place of any()
ConnectionStatusAllValues(connection, value_group) ==
    LET parsed == validate_entity_address(connection)
        asset == AssetQuery(parsed.asset_id)
    IN  IF parsed = None THEN "INVALID_DOMAIN"
        ELSE IF parsed.asset_id \notin user_asset_ids
             THEN "UNRECOGNIZED_CONNECTION_GROUP"
        ELSE IF asset = NoAsset THEN "AttributeError"
        ELSE IF asset.is_pure_consumer
                /\ \A i \in 1..Len(value_group) : value_group[i] < 0
             THEN "POWER_VALUE_TOO_SMALL"
        ELSE IF asset.is_pure_producer
                /\ \A i \in 1..Len(value_group) : value_group[i] > 0
             THEN "POWER_VALUE_TOO_BIG"
        ELSE "OK"

\* (mutant) the asset id is not looked up in the user's assets
ConnectionStatusAnyAsset(connection, value_group) ==
    LET parsed == validate_entity_address(connection)
        asset == AssetQuery(parsed.asset_id)
    IN  IF parsed = None THEN "INVALID_DOMAIN"
        ELSE IF asset = NoAsset THEN "AttributeError"
        ELSE IF asset.is_pure_consumer
                /\ \E i \in 1..Len(value_group) : value_group[i] < 0
             THEN "POWER_VALUE_TOO_SMALL"
        ELSE IF asset.is_pure_producer
                /\ \E i \in 1..Len(value_group) : value_group[i] > 0
             THEN "POWER_VALUE_TOO_BIG"
        ELSE "OK"

\* The checks of one connection: the response status it returns, "OK" when
\* it passes every check, or the uncaught AttributeError of reading a
\* property of None
ConnectionStatus(connection, value_group) ==
    LET parsed == validate_entity_address(connection)
        asset == AssetQuery(parsed.asset_id)
    IN  IF parsed = None THEN "INVALID_DOMAIN"
        ELSE IF parsed.asset_id \notin user_asset_ids
             THEN "UNRECOGNIZED_CONNECTION_GROUP"
        ELSE IF asset = NoAsset THEN "AttributeError"
        ELSE IF asset.is_pure_consumer
                /\ \E i \in 1..Len(value_group) : value_group[i] < 0
             THEN "POWER_VALUE_TOO_SMALL"
        ELSE IF asset.is_pure_producer
                /\ \E i \in 1..Len(value_group) : value_group[i] > 0
             THEN "POWER_VALUE_TOO_BIG"
        ELSE "OK"

\* The loop over the zipped groups and their connections, from connection c
\* of group g on, with the power_measurements pm and forecasting_jobs fj
\* collected so far
RECURSIVE CreateLoop(_, _, _, _, _)
CreateLoop(rq, g, c, pm, fj) ==
    IF g > Min(Len(rq.connection_groups), Len(rq.value_groups))
    THEN [status |-> "OK", power_measurements |-> pm, forecasting_jobs |-> fj]
    ELSE IF c > Len(rq.connection_groups[g])
    THEN CreateLoop(rq, g + 1, 1, pm, fj)
    ELSE LET connection == rq.connection_groups[g][c]
             value_group == rq.value_groups[g]
             status == ConnectionStatus(connection, value_group)
             asset == AssetQuery(connection.asset_id)
         IN  IF status # "OK"
             THEN [status |-> status, power_measurements |-> <<>>,
                   forecasting_jobs |-> <<>>]
             ELSE CreateLoop(rq, g, c + 1,
                             pm \o NewPowerObjects(rq, asset, value_group),
                             fj \o NewForecastingJobs(rq, connection.asset_id,
                                                      value_group))

\* ----------------------------------------------------------------- query

\* The members of seq without repetition, in the order of first occurrence
RECURSIVE Distinct(_, _, _)
Distinct(seq, i, acc) ==
    IF i > Len(seq) THEN acc
    ELSE Distinct(seq, i + 1,
                  IF \E k \in 1..Len(acc) : acc[k] = seq[i]
                  THEN acc ELSE Append(acc, seq[i]))

\* The stored values of an asset at the 15-minute slots from dt up to end,
\* oldest first
RECURSIVE StoredSeries(_, _, _, _)
StoredSeries(table, asset_id, dt, end) ==
    IF dt >= end THEN <<>>
    ELSE LET rows == {p \in table : p.asset_id = asset_id /\ p.datetime = dt}
         IN  (IF rows = {} THEN <<>> ELSE <<(CHOOSE p \in rows : TRUE).value>>)
                 \o StoredSeries(table, asset_id, dt + 15, end)

\* Power.collect(generic_asset_names, query_window, ...): the series of each
\* named asset, keyed by its name
PowerCollect(table, asset_ids, start, end) ==
    LET ids == Distinct(asset_ids, 1, <<>>)
    IN  [i \in 1..Len(ids) |->
            [k |-> AssetName(ids[i]),
             y |-> StoredSeries(table, ids[i], start, end)]]

\* The checks of one connection of a query: "OK", the response status it
\* returns, or the uncaught AttributeError of reading asset.name of None
QueryConnectionStatus(connection) ==
    LET parsed == validate_entity_address(connection)
    IN  IF parsed = None THEN "INVALID_DOMAIN"
        ELSE IF parsed.asset_id \notin user_asset_ids
             THEN "UNRECOGNIZED_CONNECTION_GROUP"
        ELSE IF AssetQuery(parsed.asset_id) = NoAsset THEN "AttributeError"
        ELSE "OK"

\* The status of the first connection of a group, from member c on, that
\* fails a check ("OK": none does)
RECURSIVE GroupStatus(_, _)
GroupStatus(connections, c) ==
    IF c > Len(connections) THEN "OK"
    ELSE IF QueryConnectionStatus(connections[c]) # "OK"
    THEN QueryConnectionStatus(connections[c])
    ELSE GroupStatus(connections, c + 1)

\* (mutant) the stored values are returned as they are
NotNegated(y) == y

\* [x * -1 for x in v.y.tolist()]
Negated(y) == [i \in 1..Len(y) |-> y[i] * (-1)]

\* The loop of collect_connection_and_value_groups over the connection
\* groups, from group g on, with the new_connection_groups ncg and the
\* value_groups vgs collected so far
RECURSIVE CollectLoop(_, _, _, _, _)
CollectLoop(table, rq, g, ncg, vgs) ==
    IF g > Len(rq.connection_groups)
    THEN [status |-> "OK", new_connection_groups |-> ncg, value_groups |-> vgs]
    ELSE LET connections == rq.connection_groups[g]
             status == GroupStatus(connections, 1)
             ts_values == PowerCollect(table,
                              [c \in 1..Len(connections) |-> connections[c].asset_id],
                              rq.start, rq.start + rq.duration)
         IN  IF status # "OK"
             THEN [status |-> status, new_connection_groups |-> <<>>,
                   value_groups |-> <<>>]
             ELSE CollectLoop(table, rq, g + 1,
                      ncg \o [i \in 1..Len(ts_values) |-> ts_values[i].k],
                      vgs \o [i \in 1..Len(ts_values) |-> Negated(ts_values[i].y)])

\* parse_as_list(connection)
parse_as_list(connection) ==
    IF connection.tag = "str" THEN <<connection>>
    ELSE IF connection.tag = "list" THEN connection.items
    ELSE <<>>

\* The ids of the assets with this name
AssetsNamed(name) == {a \in AssetIdsWithRow : AssetName(a) = name}

\* Whether asset_replace_name_with_id finds a row for every name
NamesFound(names) == \A i \in 1..Len(names) : AssetsNamed(names[i]) # {}

\* asset_replace_name_with_id(connections_as_name)
asset_replace_name_with_id(names) ==
    PyList([i \in 1..Len(names) |->
               EntityAddress(CHOOSE a \in AssetsNamed(names[i]) : TRUE)])

\* message_replace_name_with_ea on one dictionary with a connection key
EntryWithEa(e) ==
    [e EXCEPT !.conn = asset_replace_name_with_id(parse_as_list(e.conn))]

\* Whether message_replace_name_with_ea finds every name of the message
MessageNamesFound(message) ==
    \A i \in 1..Len(message.entry) :
        NamesFound(parse_as_list(message.entry[i].conn))

message_replace_name_with_ea(message) ==
    [message EXCEPT !.entry = [i \in 1..Len(message.entry) |->
                                  EntryWithEa(message.entry[i])]]

NoDict == [shape |-> "none", entry |-> <<>>]

\* collect_connection_and_value_groups: the status and the response
CollectResponse(table, rq) ==
    LET c == CollectLoop(table, rq, 1, <<>>, <<>>)
        d == groups_to_dict(c.new_connection_groups, c.value_groups)
    IN  IF c.status # "OK" THEN [status |-> c.status, response |-> NoDict]
        ELSE IF ~MessageNamesFound(d)
        THEN [status |-> "AttributeError", response |-> NoDict]
        ELSE [status |-> "PROCESSED",
              response |-> message_replace_name_with_ea(d)]

\* ------------------------------------------------------------ the state

\* The request handlers (one per worker) that may run at the same time
Procs == {1, 2}

VARIABLES
    BVP_MODE,            \* current_app.config["BVP_MODE"]
    measurements,        \* the committed rows of the measurement table
    jobs,                \* the committed forecasting jobs, oldest first
    pc,                  \* where each handler is in its request
    req,                 \* the request each handler is serving
    power_measurements,  \* each handler's list power_measurements
    forecasting_jobs,    \* each handler's list forecasting_jobs
    session,             \* each handler's db.session: its open transaction
    result,              \* the status and response each handler returned
    before,              \* history: the committed store when the request began
    committed,           \* history: what the request has committed
    prev,                \* history: the previous request of the handler
    nreq,                \* history: the number of requests begun
    cg_in,               \* groups_to_dict: argument connection_groups
    vg_in,               \* groups_to_dict: argument value_groups
    response_dict        \* groups_to_dict: the dictionary returned

vars == <<BVP_MODE, measurements, jobs, pc, req, power_measurements,
          forecasting_jobs, session, result, before, committed, prev, nreq,
          cg_in, vg_in, response_dict>>

dbVars == <<BVP_MODE, measurements, jobs, pc, req, power_measurements,
            forecasting_jobs, session, result, before, committed, prev, nreq>>

dictVars == <<cg_in, vg_in, response_dict>>

\* The answer of a handler that carries no connections and values
Answer(status) == [status |-> status, response |-> NoDict]

\* ---------------------------------------------------------- the database

\* The primary key of the measurement table
Key(p) == <<p.datetime, p.asset_id>>

KeysOf(rows) == {Key(p) : p \in rows}

Range(f) == {f[i] : i \in DOMAIN f}

EmptySession == [new |-> <<>>, merged |-> {}, found |-> {}, jobs |-> <<>>]

NothingCommitted == [rows |-> {}, jobs |-> <<>>, via |-> ""]

\* The keys other open transactions have inserted and not yet committed
HeldKeys(r) == UNION {KeysOf(Range(session[s].new)) : s \in Procs \ {r}}

\* (mutant) the table has no primary key: every INSERT succeeds
BulkSaveUnconstrained(objects, i, taken, held) == "ok"

\* db.session.bulk_save_objects(objects) of Power objects, from object i on:
\* an INSERT per object.  An object whose key is committed, or was inserted
\* before it in this transaction, raises IntegrityError; one whose key
\* another open transaction has inserted waits for that transaction.
RECURSIVE BulkSaveOutcome(_, _, _, _)
BulkSaveOutcome(objects, i, taken, held) ==
    IF i > Len(objects) THEN "ok"
    ELSE IF Key(objects[i]) \in taken THEN "IntegrityError"
    ELSE IF Key(objects[i]) \in held THEN "blocked"
    ELSE BulkSaveOutcome(objects, i + 1, taken \cup {Key(objects[i])}, held)

\* db.session.merge(o) for each o of objects, from object i on: the rows the
\* session holds afterwards, a later object replacing an earlier one of the
\* same key
RECURSIVE MergeAll(_, _, _)
MergeAll(objects, i, rows) ==
    IF i > Len(objects) THEN rows
    ELSE MergeAll(objects, i + 1,
                  {p \in rows : Key(p) # Key(objects[i])} \cup {objects[i]})

\* (mutant) a row of a key that is in the table is not written
WrittenKeepingStored(table, rows) ==
    table \cup {p \in rows : Key(p) \notin KeysOf(table)}

\* The measurement table after the rows of a transaction are written to it:
\* a row of the same key is replaced
Written(table, rows) ==
    {p \in table : Key(p) \notin KeysOf(rows)} \cup rows

\* ------------------------------------------------------------- requests

NoRequest ==
    [type |-> "none", connection_groups |-> <<>>, value_groups |-> <<>>,
     horizon |-> 0, rolling |-> FALSE, start |-> 0, duration |-> 0]

SeqsUpTo(S, n) == UNION {[1..k -> S] : k \in 0..n}

NonEmptySeqsUpTo(S, n) == UNION {[1..k -> S] : k \in 1..n}

RECURSIVE SumLen(_, _)
SumLen(groups, i) ==
    IF i > Len(groups) THEN 0 ELSE Len(groups[i]) + SumLen(groups, i + 1)

\* The value groups a request of this duration may carry: the duration is a
\* multiple of 15 minutes and the number of values divides that multiple
ValueGroupsOf(values, maxN, duration) ==
    {v \in SeqsUpTo(values, maxN) :
        Len(v) = 0 \/ (duration \div 15) % Len(v) = 0}

\* The PostMeterDataRequests over the given addresses and values: at most
\* maxGroups connection groups with maxConns connections in all, each group
\* paired with a value group of at most maxN values
PostRequests(addrs, maxGroups, maxConns, values, maxN, horizons, rollings, starts, durations) ==
    UNION {
        {[type |-> "post", connection_groups |-> cgs, value_groups |-> vgs,
          horizon |-> h, rolling |-> ro, start |-> st, duration |-> d] :
            vgs \in [1..Len(cgs) -> ValueGroupsOf(values, maxN, d)],
            h \in horizons, ro \in rollings, st \in starts} :
        cgs \in {x \in SeqsUpTo(NonEmptySeqsUpTo(addrs, maxConns), maxGroups) :
                    SumLen(x, 1) <= maxConns},
        d \in durations}

\* ------------------------------------------------------------- actions

\* create_connection_and_value_groups up to "SAVING TO DB...": the checks
\* of every connection and the lists of Power objects and forecasting jobs
StartPost(r, rq) ==
    /\ pc[r] \in {"idle", "done"}
    /\ nreq < MaxRequests
    /\ LET b == CreateLoop(rq, 1, 1, <<>>, <<>>)
       IN  /\ power_measurements' = [power_measurements EXCEPT ![r] = b.power_measurements]
           /\ forecasting_jobs' = [forecasting_jobs EXCEPT ![r] = b.forecasting_jobs]
           /\ pc' = [pc EXCEPT ![r] = IF b.status = "OK" THEN "saving" ELSE "done"]
           /\ result' = [result EXCEPT ![r] =
                  Answer(IF b.status = "OK" THEN "" ELSE b.status)]
    /\ req' = [req EXCEPT ![r] = rq]
    /\ session' = [session EXCEPT ![r] = EmptySession]
    /\ before' = [before EXCEPT ![r] = [measurements |-> measurements, jobs |-> jobs]]
    /\ committed' = [committed EXCEPT ![r] = NothingCommitted]
    /\ prev' = [prev EXCEPT ![r] = [same |-> rq = req[r], status |-> result[r].status]]
    /\ nreq' = nreq + 1
    /\ UNCHANGED <<BVP_MODE, measurements, jobs>>

\* save_to_database(power_measurements), and the except branch when it
\* raises IntegrityError: the rollback, and the response outside play mode
SaveMeasurements(r) ==
    /\ pc[r] = "saving"
    /\ LET out == BulkSaveOutcome(power_measurements[r], 1,
                                  KeysOf(measurements), HeldKeys(r))
       IN  /\ out # "blocked"
           /\ session' = [session EXCEPT ![r] =
                  IF out = "ok"
                  THEN [EmptySession EXCEPT !.new = power_measurements[r]]
                  ELSE EmptySession]
           /\ pc' = [pc EXCEPT ![r] =
                  IF out = "ok" THEN "saving_jobs"
                  ELSE IF BVP_MODE = "play" THEN "merging" ELSE "done"]
           /\ result' = [result EXCEPT ![r] =
                  Answer(IF out = "ok" \/ BVP_MODE = "play" THEN ""
                         ELSE "ALREADY_RECEIVED_AND_SUCCESSFULLY_PROCESSED")]
    /\ UNCHANGED <<BVP_MODE, measurements, jobs, req, power_measurements,
                   forecasting_jobs, before, committed, prev, nreq>>

\* save_to_database(forecasting_jobs)
SaveJobs(r) ==
    /\ pc[r] = "saving_jobs"
    /\ session' = [session EXCEPT ![r].jobs = forecasting_jobs[r]]
    /\ pc' = [pc EXCEPT ![r] = "committing"]
    /\ UNCHANGED <<BVP_MODE, measurements, jobs, req, power_measurements,
                   forecasting_jobs, result, before, committed, prev, nreq>>

\* What db.session.commit() makes of the store after the bulk saves
CommittedMeasurements(table, sess) == table \cup Range(sess.new)

\* (mutant) the forecasting jobs are not part of the transaction
CommittedJobsLost(queue, sess) == queue

CommittedJobs(queue, sess) == queue \o sess.jobs

\* db.session.commit(); return request_processed()
Commit(r) ==
    /\ pc[r] = "committing"
    /\ measurements' = CommittedMeasurements(measurements, session[r])
    /\ jobs' = CommittedJobs(jobs, session[r])
    /\ committed' = [committed EXCEPT ![r] =
           [rows |-> measurements' \ measurements,
            jobs |-> SubSeq(jobs', Len(jobs) + 1, Len(jobs')),
            via |-> "insert"]]
    /\ session' = [session EXCEPT ![r] = EmptySession]
    /\ result' = [result EXCEPT ![r] = Answer("PROCESSED")]
    /\ pc' = [pc EXCEPT ![r] = "done"]
    /\ UNCHANGED <<BVP_MODE, req, power_measurements, forecasting_jobs,
                   before, prev, nreq>>

\* save_to_database(power_measurements, overwrite=True): each merge looks
\* its key up in the table and leaves an INSERT or an UPDATE in the session
MergeMeasurements(r) ==
    /\ pc[r] = "merging"
    /\ session' = [session EXCEPT ![r] =
           [EmptySession EXCEPT
               !.merged = MergeAll(power_measurements[r], 1, {}),
               !.found = KeysOf(measurements)
                             \cap KeysOf(Range(power_measurements[r]))]]
    /\ pc' = [pc EXCEPT ![r] = "merging_jobs"]
    /\ UNCHANGED <<BVP_MODE, measurements, jobs, req, power_measurements,
                   forecasting_jobs, result, before, committed, prev, nreq>>

\* save_to_database(forecasting_jobs, overwrite=True)
MergeJobs(r) ==
    /\ pc[r] = "merging_jobs"
    /\ session' = [session EXCEPT ![r].jobs = forecasting_jobs[r]]
    /\ pc' = [pc EXCEPT ![r] = "committing_merge"]
    /\ UNCHANGED <<BVP_MODE, measurements, jobs, req, power_measurements,
                   forecasting_jobs, result, before, committed, prev, nreq>>

\* The rows of the session that the merge did not find: its INSERTs
MergeInserts(sess) == {p \in sess.merged : Key(p) \notin sess.found}

\* db.session.commit(); return request_processed() in play mode.  An INSERT
\* of a key that was committed since the merge raises IntegrityError, which
\* nothing catches.
CommitMerge(r) ==
    /\ pc[r] = "committing_merge"
    /\ KeysOf(MergeInserts(session[r])) \cap HeldKeys(r) = {}
    /\ LET clash == KeysOf(MergeInserts(session[r])) \cap KeysOf(measurements) # {}
       IN  /\ measurements' = IF clash THEN measurements
                              ELSE Written(measurements, session[r].merged)
           /\ jobs' = IF clash THEN jobs ELSE CommittedJobs(jobs, session[r])
           /\ result' = [result EXCEPT ![r] =
                  Answer(IF clash THEN "IntegrityError" ELSE "PROCESSED")]
           /\ committed' = [committed EXCEPT ![r] =
                  IF clash THEN NothingCommitted
                  ELSE [rows |-> {p \in measurements' :
                                     \/ p \notin measurements
                                     \/ Key(p) \in KeysOf(session[r].merged)},
                        jobs |-> SubSeq(jobs', Len(jobs) + 1, Len(jobs')),
                        via |-> "merge"]]
    /\ session' = [session EXCEPT ![r] = EmptySession]
    /\ pc' = [pc EXCEPT ![r] = "done"]
    /\ UNCHANGED <<BVP_MODE, req, power_measurements, forecasting_jobs,
                   before, prev, nreq>>

\* -------------------------------------------------------- specifications

InitDb ==
    /\ BVP_MODE \in {"", "play"}
    /\ measurements = {}
    /\ jobs = <<>>
    /\ pc = [r \in Procs |-> "idle"]
    /\ req = [r \in Procs |-> NoRequest]
    /\ power_measurements = [r \in Procs |-> <<>>]
    /\ forecasting_jobs = [r \in Procs |-> <<>>]
    /\ session = [r \in Procs |-> EmptySession]
    /\ result = [r \in Procs |-> Answer("")]
    /\ before = [r \in Procs |-> [measurements |-> {}, jobs |-> <<>>]]
    /\ committed = [r \in Procs |-> NothingCommitted]
    /\ prev = [r \in Procs |-> [same |-> FALSE, status |-> ""]]
    /\ nreq = 0

InitDict ==
    /\ cg_in = <<>>
    /\ vg_in = <<>>
    /\ response_dict = [shape |-> "none", entry |-> <<>>]

\* collect_connection_and_value_groups: it reads the committed table
StartGet(r, rq) ==
    /\ pc[r] = "idle"
    /\ nreq < MaxRequests
    /\ req' = [req EXCEPT ![r] = rq]
    /\ result' = [result EXCEPT ![r] = CollectResponse(measurements, rq)]
    /\ pc' = [pc EXCEPT ![r] = "done"]
    /\ before' = [before EXCEPT ![r] = [measurements |-> measurements, jobs |-> jobs]]
    /\ nreq' = nreq + 1
    /\ UNCHANGED <<BVP_MODE, measurements, jobs, power_measurements,
                   forecasting_jobs, session, committed, prev>>

\* The GetMeterDataRequests over the given addresses
GetRequests(addrs, maxGroups, maxConns, starts, durations) ==
    {[type |-> "get", connection_groups |-> cgs, value_groups |-> <<>>,
      horizon |-> 0, rolling |-> FALSE, start |-> st, duration |-> d] :
        cgs \in {x \in SeqsUpTo(NonEmptySeqsUpTo(addrs, maxConns), maxGroups) :
                    SumLen(x, 1) <= maxConns},
        st \in starts, d \in durations}

\* The handler has returned its response and waits for the next request
Return(r) ==
    /\ pc[r] = "done"
    /\ pc' = [pc EXCEPT ![r] = "idle"]
    /\ req' = [req EXCEPT ![r] = NoRequest]
    /\ power_measurements' = [power_measurements EXCEPT ![r] = <<>>]
    /\ forecasting_jobs' = [forecasting_jobs EXCEPT ![r] = <<>>]
    /\ result' = [result EXCEPT ![r] = Answer("")]
    /\ before' = [before EXCEPT ![r] = [measurements |-> {}, jobs |-> <<>>]]
    /\ committed' = [committed EXCEPT ![r] = NothingCommitted]
    /\ prev' = [prev EXCEPT ![r] = [same |-> FALSE, status |-> ""]]
    /\ UNCHANGED <<BVP_MODE, measurements, jobs, session, nreq>>

\* The client posts the request it has just been answered once more
Resubmit(r) ==
    /\ pc[r] = "done"
    /\ req[r].type = "post"
    /\ StartPost(r, req[r])

\* The addresses of the current user's assets that have a row
OwnAddresses == [kind : {"connection"}, asset_id : {1, 2}]

\* One handler serving one request after another: requests that pass the
\* checks of the connections, and may meet what is stored
StoreRequests ==
    PostRequests(OwnAddresses, MaxGroups, MaxConnections, {0, 1}, MaxN,
                 {0}, {FALSE}, {0}, {30})

\* Requests that may fail the checks of the connections
CheckRequests ==
    PostRequests(Addresses, MaxGroups, MaxConnections, {-1, 1}, MaxN,
                 {0}, {FALSE}, {0}, {30})

SeqPostRequests == StoreRequests \cup CheckRequests

SeqGetRequests == GetRequests(Addresses, MaxGroups, MaxConnections, {0}, {30})

Init == InitDb /\ InitDict

Post(r) ==
    /\ pc[r] = "idle"
    /\ \E rq \in SeqPostRequests : StartPost(r, rq)

Get(r) ==
    /\ pc[r] = "idle"
    /\ \E rq \in SeqGetRequests : StartGet(r, rq)

Next ==
    \/ Post(1) /\ UNCHANGED dictVars
    \/ Get(1) /\ UNCHANGED dictVars
    \/ Resubmit(1) /\ UNCHANGED dictVars
    \/ Return(1) /\ UNCHANGED dictVars
    \/ SaveMeasurements(1) /\ UNCHANGED dictVars
    \/ SaveJobs(1) /\ UNCHANGED dictVars
    \/ Commit(1) /\ UNCHANGED dictVars
    \/ MergeMeasurements(1) /\ UNCHANGED dictVars
    \/ MergeJobs(1) /\ UNCHANGED dictVars
    \/ CommitMerge(1) /\ UNCHANGED dictVars

Spec == Init /\ [][Next]_vars

\* ------------------------------------- properties of one handler's requests

\* The connections of a request in request order (groups in order, members
\* in order), each with the value group paired with its group
RECURSIVE RequestPairs(_, _)
RequestPairs(rq, g) ==
    IF g > Len(rq.connection_groups) THEN <<>>
    ELSE [c \in 1..Len(rq.connection_groups[g]) |->
             [connection |-> rq.connection_groups[g][c],
              values |-> IF rq.type = "post" THEN rq.value_groups[g] ELSE <<>>]]
         \o RequestPairs(rq, g + 1)

Unparsable(x) == x.connection.kind # "connection"

Unauthorized(x) ==
    /\ x.connection.kind = "connection"
    /\ x.connection.asset_id \notin user_asset_ids

MissingRow(x) ==
    /\ x.connection.kind = "connection"
    /\ x.connection.asset_id \in user_asset_ids
    /\ x.connection.asset_id \notin AssetIdsWithRow

Resolved(x) ==
    /\ x.connection.kind = "connection"
    /\ x.connection.asset_id \in user_asset_ids
    /\ x.connection.asset_id \in AssetIdsWithRow

ConsumerWithNegative(x) ==
    /\ Resolved(x)
    /\ AssetQuery(x.connection.asset_id).is_pure_consumer
    /\ \E i \in 1..Len(x.values) : x.values[i] < 0

ProducerWithPositive(x) ==
    /\ Resolved(x)
    /\ AssetQuery(x.connection.asset_id).is_pure_producer
    /\ \E i \in 1..Len(x.values) : x.values[i] > 0

Fails(x) ==
    \/ Unparsable(x)
    \/ Unauthorized(x)
    \/ MissingRow(x)
    \/ ConsumerWithNegative(x)
    \/ ProducerWithPositive(x)

\* The position in request order of the first connection that fails (0: none)
FirstFailing(rq) ==
    LET pairs == RequestPairs(rq, 1)
        failing == {i \in 1..Len(pairs) : Fails(pairs[i])}
    IN  IF failing = {} THEN 0
        ELSE CHOOSE i \in failing : \A k \in failing : i <= k

FirstFailingPair(rq) == RequestPairs(rq, 1)[FirstFailing(rq)]

\* The request of handler r has been answered
Answered(r) == pc[r] = "done"

\* The committed store is what it was when the request of r began, and the
\* request has committed nothing
NothingWritten(r) ==
    /\ measurements = before[r].measurements
    /\ jobs = before[r].jobs
    /\ committed[r] = NothingCommitted

\* The last Power object of the batch of r with key k
LastWithKey(r, k) ==
    LET at == {i \in 1..Len(power_measurements[r]) :
                  Key(power_measurements[r][i]) = k}
    IN  power_measurements[r][CHOOSE i \in at : \A j \in at : j <= i]

BatchKeys(r) == KeysOf(Range(power_measurements[r]))

\* r posted again the request that had just been processed, outside play mode
ResubmittedStrict(r) ==
    /\ Answered(r)
    /\ req[r].type = "post"
    /\ prev[r].same
    /\ prev[r].status = "PROCESSED"
    /\ BVP_MODE # "play"

\* C1 as stated: outside play mode, the second post of any batch that was
\* processed is answered AlreadyReceivedAndSuccessfullyProcessed and leaves
\* the committed measurements and forecasting jobs as they were
C1_AnyBatchTwice ==
    \A r \in Procs :
        ResubmittedStrict(r) =>
            /\ result[r].status = "ALREADY_RECEIVED_AND_SUCCESSFULLY_PROCESSED"
            /\ NothingWritten(r)

\* C1 amended: outside play mode, the second post of a processed batch that
\* holds at least one Measurement is answered
\* AlreadyReceivedAndSuccessfullyProcessed and leaves the committed
\* measurements and forecasting jobs as they were
C1_NonEmptyBatchTwice ==
    \A r \in Procs :
        (ResubmittedStrict(r) /\ power_measurements[r] # <<>>) =>
            /\ result[r].status = "ALREADY_RECEIVED_AND_SUCCESSFULLY_PROCESSED"
            /\ NothingWritten(r)

\* C1 witness: a batch of two connections with measurements, posted twice
C1_Witness ==
    /\ ResubmittedStrict(1)
    /\ Len(power_measurements[1]) >= 2
    /\ forecasting_jobs[1] # <<>>
    /\ before[1].jobs # <<>>
    /\ result[1].status = "ALREADY_RECEIVED_AND_SUCCESSFULLY_PROCESSED"

\* The batch of r meets a committed measurement of the same key, in play mode
CollidedInPlayMode(r) ==
    /\ Answered(r)
    /\ req[r].type = "post"
    /\ BVP_MODE = "play"
    /\ BatchKeys(r) \cap KeysOf(before[r].measurements) # {}

\* C2: in play mode a batch that collides with committed measurements is
\* processed; afterwards every key of the batch holds the Measurement of
\* this submission and every other stored measurement is unchanged
C2_ReplayOverwrites ==
    \A r \in Procs :
        CollidedInPlayMode(r) =>
            /\ result[r].status = "PROCESSED"
            /\ \A k \in BatchKeys(r) :
                  {p \in measurements : Key(p) = k} = {LastWithKey(r, k)}
            /\ {p \in measurements : Key(p) \notin BatchKeys(r)}
                  = {p \in before[r].measurements : Key(p) \notin BatchKeys(r)}

\* C2 witness: a stored value is replaced by another one, next to a stored
\* measurement the batch does not touch
C2_Witness ==
    /\ CollidedInPlayMode(1)
    /\ \E p \in before[1].measurements, q \in measurements :
          Key(p) = Key(q) /\ p.value # q.value
    /\ \E p \in measurements : Key(p) \notin BatchKeys(1)

\* C4 as stated: a pure consumer with a negative value anywhere in the
\* request gives PowerValueTooSmall, a pure producer with a positive value
\* anywhere gives PowerValueTooBig, and nothing is written
C4_AnyViolation ==
    \A r \in Procs :
        (Answered(r) /\ req[r].type = "post") =>
            LET pairs == RequestPairs(req[r], 1)
            IN  /\ (\E i \in 1..Len(pairs) : ConsumerWithNegative(pairs[i]))
                      => /\ result[r].status = "POWER_VALUE_TOO_SMALL"
                         /\ NothingWritten(r)
                /\ (\E i \in 1..Len(pairs) : ProducerWithPositive(pairs[i]))
                      => /\ result[r].status = "POWER_VALUE_TOO_BIG"
                         /\ NothingWritten(r)

\* C4 amended: when the first connection in request order that fails a
\* check is a pure consumer with a negative value the request returns
\* PowerValueTooSmall, when it is a pure producer with a positive value it
\* returns PowerValueTooBig, and in both cases nothing is written
C4_FirstViolation ==
    \A r \in Procs :
        (Answered(r) /\ req[r].type = "post" /\ FirstFailing(req[r]) # 0) =>
            /\ ConsumerWithNegative(FirstFailingPair(req[r]))
                  => /\ result[r].status = "POWER_VALUE_TOO_SMALL"
                     /\ NothingWritten(r)
            /\ ProducerWithPositive(FirstFailingPair(req[r]))
                  => /\ result[r].status = "POWER_VALUE_TOO_BIG"
                     /\ NothingWritten(r)

\* C4 witness: the second group fails the sign check after the first group
\* passed, with measurements in the store
C4_Witness ==
    /\ Answered(1)
    /\ req[1].type = "post"
    /\ Len(req[1].connection_groups) = 2
    /\ FirstFailing(req[1]) = 2
    /\ Len(req[1].value_groups[1]) > 0
    /\ result[1].status = "POWER_VALUE_TOO_BIG"
    /\ measurements # {}

\* C5: a query or an ingestion whose first failing connection does not
\* parse returns InvalidDomain, one whose first failing connection parses
\* to an asset outside the user's assets returns
\* UnrecognizedConnectionGroup; it returns no values and writes nothing
C5_AddressFailures ==
    \A r \in Procs :
        (Answered(r) /\ FirstFailing(req[r]) # 0) =>
            /\ Unparsable(FirstFailingPair(req[r]))
                  => /\ result[r].status = "INVALID_DOMAIN"
                     /\ result[r].response = NoDict
                     /\ NothingWritten(r)
            /\ Unauthorized(FirstFailingPair(req[r]))
                  => /\ result[r].status = "UNRECOGNIZED_CONNECTION_GROUP"
                     /\ result[r].response = NoDict
                     /\ NothingWritten(r)

\* C5 witness: an ingestion whose second group names another user's asset
\* after a first group that passed
C5_Witness ==
    /\ Answered(1)
    /\ req[1].type = "post"
    /\ FirstFailing(req[1]) = 2
    /\ Len(req[1].connection_groups) = 2
    /\ Len(req[1].value_groups[1]) > 0
    /\ result[1].status = "UNRECOGNIZED_CONNECTION_GROUP"
    /\ measurements # {}

\* C6: a query or an ingestion whose first failing connection names an asset
\* of the user that has no row returns UnrecognizedConnectionGroup and
\* writes nothing
C6_MissingRowIsUnrecognized ==
    \A r \in Procs :
        (Answered(r) /\ FirstFailing(req[r]) # 0
            /\ MissingRow(FirstFailingPair(req[r]))) =>
            /\ result[r].status = "UNRECOGNIZED_CONNECTION_GROUP"
            /\ NothingWritten(r)

\* ------------------------------------------------- per-value horizons

\* Requests of one connection over windows of up to MaxSlots slots, in
\* rolling and in fixed-horizon mode, of as many values as divide the
\* minutes of the window
HorizonRequests ==
    {rq \in PostRequests({[kind |-> "connection", asset_id |-> 1]}, 1, 1, {1},
                         MaxSlots, {0, 120}, BOOLEAN, {0, 15},
                         {15 * k : k \in 1..MaxSlots}) :
        \A g \in 1..Len(rq.value_groups) :
            Len(rq.value_groups[g]) > 0
                => rq.duration % Len(rq.value_groups[g]) = 0}

PostHorizon(r) ==
    /\ pc[r] = "idle"
    /\ \E rq \in HorizonRequests : StartPost(r, rq)

NextHorizon ==
    \/ PostHorizon(1) /\ UNCHANGED dictVars
    \/ Return(1) /\ UNCHANGED dictVars
    \/ SaveMeasurements(1) /\ UNCHANGED dictVars
    \/ SaveJobs(1) /\ UNCHANGED dictVars
    \/ Commit(1) /\ UNCHANGED dictVars
    \/ MergeMeasurements(1) /\ UNCHANGED dictVars
    \/ MergeJobs(1) /\ UNCHANGED dictVars
    \/ CommitMerge(1) /\ UNCHANGED dictVars

SpecHorizon == Init /\ [][NextHorizon]_vars

\* The post of r has been processed
Processed(r) ==
    /\ Answered(r)
    /\ req[r].type = "post"
    /\ result[r].status = "PROCESSED"

\* The stored horizons of the measurements of asset a at datetime dt
StoredHorizons(a, dt) ==
    {p.horizon : p \in {q \in measurements : q.asset_id = a /\ q.datetime = dt}}

\* The width of a slot of value group g of the request of r
SlotOf(r, g) == req[r].duration \div Len(req[r].value_groups[g])

\* C9: the value at index j of a value group of N values is stored with the
\* horizon of the request when rolling, and else with
\* horizon - ((start + duration) - (dt_j + duration/N)), where
\* dt_j = start + j * duration/N: the last value has the horizon of the
\* request
C9_StoredHorizon ==
    \A r \in Procs :
        Processed(r) =>
            \A g \in 1..Len(req[r].connection_groups) :
                \A c \in 1..Len(req[r].connection_groups[g]) :
                    \A j \in 0..(Len(req[r].value_groups[g]) - 1) :
                        /\ StoredHorizons(req[r].connection_groups[g][c].asset_id,
                                          req[r].start + j * SlotOf(r, g))
                          = {IF req[r].rolling
                             THEN req[r].horizon
                             ELSE req[r].horizon
                                  - ((req[r].start + req[r].duration)
                                     - (req[r].start + j * SlotOf(r, g)
                                        + SlotOf(r, g)))}
                        /\ (j = Len(req[r].value_groups[g]) - 1 =>
                               StoredHorizons(req[r].connection_groups[g][c].asset_id,
                                              req[r].start + j * SlotOf(r, g))
                                 = {req[r].horizon})

\* C9 witness: one hour in four values with a horizon of two hours, not
\* rolling; the last value is stored with two hours
C9_Witness ==
    /\ Processed(1)
    /\ ~req[1].rolling
    /\ req[1].duration = 60
    /\ req[1].horizon = 120
    /\ Len(req[1].value_groups) = 1
    /\ Len(req[1].value_groups[1]) = 4
    /\ StoredHorizons(1, req[1].start + 45) = {120}
    /\ StoredHorizons(1, req[1].start) = {75}

\* The stored horizons of value group g of connection c of the request of
\* r are in order: ordered(hi, hj) for every earlier hi and later hj, one
\* stored for every value, the last one the horizon of the request
HorizonsInOrder(r, g, c, ordered(_, _)) ==
    LET n == Len(req[r].value_groups[g])
        a == req[r].connection_groups[g][c].asset_id
        at(j) == req[r].start + j * SlotOf(r, g)
    IN  /\ \A i, j \in 0..(n - 1) :
              i < j => \A hi \in StoredHorizons(a, at(i)) :
                          \A hj \in StoredHorizons(a, at(j)) : ordered(hi, hj)
        /\ \A j \in 0..(n - 1) : StoredHorizons(a, at(j)) # {}
        /\ StoredHorizons(a, at(n - 1)) = {req[r].horizon}

Larger(hi, hj) == hi > hj

Smaller(hi, hj) == hi < hj

\* C10 as stated: in fixed-horizon mode the stored horizons of a value group
\* of at least two values are larger for earlier values (h_i > h_j for
\* i < j) and end at the horizon of the request
C10_EarlierIsLarger ==
    \A r \in Procs :
        (Processed(r) /\ ~req[r].rolling) =>
            \A g \in 1..Len(req[r].connection_groups) :
                \A c \in 1..Len(req[r].connection_groups[g]) :
                    Len(req[r].value_groups[g]) >= 2
                        => HorizonsInOrder(r, g, c, Larger)

\* C10 amended: in fixed-horizon mode the stored horizons of a value group
\* of at least two values are smaller for earlier values (h_i < h_j for
\* i < j) and end at the horizon of the request
C10_EarlierIsSmaller ==
    \A r \in Procs :
        (Processed(r) /\ ~req[r].rolling) =>
            \A g \in 1..Len(req[r].connection_groups) :
                \A c \in 1..Len(req[r].connection_groups[g]) :
                    Len(req[r].value_groups[g]) >= 2
                        => HorizonsInOrder(r, g, c, Smaller)

\* C10 witness: three values in fixed-horizon mode, stored over what an
\* earlier request had written
C10_Witness ==
    /\ Processed(1)
    /\ ~req[1].rolling
    /\ Len(req[1].value_groups) = 1
    /\ Len(req[1].value_groups[1]) = 3
    /\ req[1].duration = 45
    /\ StoredHorizons(1, req[1].start) = {req[1].horizon - 30}
    /\ StoredHorizons(1, req[1].start + 15) = {req[1].horizon - 15}
    /\ StoredHorizons(1, req[1].start + 30) = {req[1].horizon}

\* ----------------------------------------------------- concurrent requests

\* Two handlers at once, each posting measurements of the user's assets
ConcRequests ==
    PostRequests(OwnAddresses, MaxGroups, MaxConnections, {0}, MaxN,
                 {0}, {FALSE}, {0}, {30})

PostConc(r) ==
    /\ pc[r] = "idle"
    /\ \E rq \in ConcRequests : StartPost(r, rq)

NextConc ==
    \/ \E r \in Procs : PostConc(r) /\ UNCHANGED dictVars
    \/ \E r \in Procs : Return(r) /\ UNCHANGED dictVars
    \/ \E r \in Procs : SaveMeasurements(r) /\ UNCHANGED dictVars
    \/ \E r \in Procs : SaveJobs(r) /\ UNCHANGED dictVars
    \/ \E r \in Procs : Commit(r) /\ UNCHANGED dictVars
    \/ \E r \in Procs : MergeMeasurements(r) /\ UNCHANGED dictVars
    \/ \E r \in Procs : MergeJobs(r) /\ UNCHANGED dictVars
    \/ \E r \in Procs : CommitMerge(r) /\ UNCHANGED dictVars

SpecConc == Init /\ [][NextConc]_vars

\* The request of r has committed its whole batch: a Measurement for every
\* key of the batch, each one of the batch, and every forecasting job
WholeBatchCommitted(r) ==
    /\ KeysOf(committed[r].rows) = BatchKeys(r)
    /\ committed[r].rows \subseteq Range(power_measurements[r])
    /\ committed[r].jobs = forecasting_jobs[r]

\* C3: at every moment a request has committed nothing or its whole batch
\* with all its forecasting jobs; a processed request has committed its
\* batch and any other answer has committed nothing; and of two answered
\* requests with a key in common at most one has committed through the
\* plain insert: the other one took the except branch
C3_AtomicBatch ==
    /\ \A r \in Procs :
          /\ committed[r].via = "" => committed[r] = NothingCommitted
          /\ committed[r].via # "" => WholeBatchCommitted(r)
          /\ Answered(r) /\ req[r].type = "post" =>
                (committed[r].via # "" <=> result[r].status = "PROCESSED")
          /\ ~Answered(r) => committed[r] = NothingCommitted
    /\ \A r, s \in Procs :
          (r # s /\ Answered(r) /\ Answered(s)
              /\ BatchKeys(r) \cap BatchKeys(s) # {}
              /\ committed[r].via = "insert")
            => committed[s].via # "insert"

\* C3 witness: two requests of two groups each that began on the same store
\* with a key in common; one is processed with its jobs, the other one is
\* answered AlreadyReceivedAndSuccessfullyProcessed
C3_Witness ==
    /\ Answered(1) /\ Answered(2)
    /\ before[1] = before[2]
    /\ Len(req[1].connection_groups) = 2 /\ Len(req[2].connection_groups) = 2
    /\ BatchKeys(1) \cap BatchKeys(2) # {}
    /\ BatchKeys(1) # BatchKeys(2)
    /\ result[1].status = "PROCESSED"
    /\ committed[1].jobs # <<>>
    /\ result[2].status = "ALREADY_RECEIVED_AND_SUCCESSFULLY_PROCESSED"

\* ------------------------------------------------------- query responses

\* The query of r for exactly one connection has been answered successfully
SingleConnectionQueried(r) ==
    /\ Answered(r)
    /\ req[r].type = "get"
    /\ result[r].status = "PROCESSED"
    /\ Len(req[r].connection_groups) = 1
    /\ Len(req[r].connection_groups[1]) = 1

\* C11: a successful query for exactly one connection answers in the flat
\* single-connection shape: key connection holding the entity address of
\* the connection, not a list, whatever the length of the asset's name
C11_SingleConnectionFlat ==
    \A r \in Procs :
        SingleConnectionQueried(r) =>
            /\ result[r].response.shape = "flat"
            /\ Len(result[r].response.entry) = 1
            /\ result[r].response.entry[1].key = "connection"
            /\ result[r].response.entry[1].conn
                 = EntityAddress(req[r].connection_groups[1][1].asset_id)

\* The values of index j (from 0) that the request of r submits for the
\* key k: those of every connection and value group that give this key
SubmittedFor(r, k) ==
    UNION {{req[r].value_groups[g][j + 1] :
               j \in {i \in 0..(Len(req[r].value_groups[g]) - 1) :
                         k[1] = req[r].start + i * SlotOf(r, g)}} :
           g \in {h \in 1..Len(req[r].connection_groups) :
                     \E c \in 1..Len(req[r].connection_groups[h]) :
                         req[r].connection_groups[h][c].asset_id = k[2]}}

\* The rows that ingesting the value group v for asset a over the window of
\* the request of r writes into an empty store
IngestedAlone(r, a, v) ==
    Range(NewPowerObjects(req[r], AssetQuery(a), v))

\* C12: ingestion stores -x for every external value x, a query returns -s
\* for every stored value s, and a query for the connection and window of
\* a batch that was ingested into an empty store returns the submitted values
C12_SignOncePerDirection ==
    \A r \in Procs :
        /\ Processed(r) =>
              /\ KeysOf(committed[r].rows) = BatchKeys(r)
              /\ \A p \in committed[r].rows :
                    \E x \in SubmittedFor(r, Key(p)) : p.value = 0 - x
        /\ SingleConnectionQueried(r) =>
              LET a == req[r].connection_groups[1][1].asset_id
                  stored == StoredSeries(measurements, a, req[r].start,
                                         req[r].start + req[r].duration)
                  returned == result[r].response.entry[1].values
              IN  /\ Len(returned) = Len(stored)
                  /\ \A i \in 1..Len(stored) : returned[i] = 0 - stored[i]
                  /\ \A v \in ValueGroupsOf({-1, 0, 1}, MaxN, req[r].duration) :
                        (Len(v) > 0 /\ measurements = IngestedAlone(r, a, v))
                            => returned = v

\* C12 witness: the query returns the values 1, 0 that were posted for the
\* consumer and are stored as -1, 0
C12_Witness ==
    /\ SingleConnectionQueried(1)
    /\ req[1].connection_groups[1][1].asset_id = 1
    /\ measurements = IngestedAlone(1, 1, <<1, 0>>)
    /\ \E p \in measurements : p.datetime = 0 /\ p.value = -1
    /\ result[1].response.entry[1].values = <<1, 0>>

\* ------------------------------------------------------- already received

\* C13: a request is answered AlreadyReceivedAndSuccessfullyProcessed only
\* if a Measurement of its batch has a key that was in the committed store
\* before the request; a batch that holds a key twice and meets no stored
\* row is not answered so
C13_AlreadyReceivedOnlyOnCollision ==
    \A r \in Procs :
        (/\ Answered(r)
         /\ req[r].type = "post"
         /\ result[r].status = "ALREADY_RECEIVED_AND_SUCCESSFULLY_PROCESSED")
            => BatchKeys(r) \cap KeysOf(before[r].measurements) # {}

\* -------------------------------------------------------- forecasting jobs

\* A connection of a request for which at least one Measurement is written
HasValues(x) == Len(x.values) >= 1

\* C14: a processed request has emitted exactly one forecasting job
\* ("Power", asset id, start, end) for every connection with at least one
\* value, in request order, and none for a connection whose value group is
\* empty
C14_JobPerWrittenConnection ==
    \A r \in Procs :
        (Processed(r) /\ req[r].duration > 0) =>
            LET written == SelectSeq(RequestPairs(req[r], 1), HasValues)
            IN  /\ Len(committed[r].jobs) = Len(written)
                /\ \A i \in 1..Len(written) :
                      /\ committed[r].jobs[i].kind = "Power"
                      /\ committed[r].jobs[i].asset_id = written[i].connection.asset_id
                      /\ committed[r].jobs[i].start = req[r].start

\* ------------------------------------------- groups_to_dict on its own

\* The arguments of groups_to_dict: lists of equal length of connection
\* groups (each names at least one connection) and of value groups
DictConnectionGroups ==
    {ConnectionGroup(ids) : ids \in NonEmptySeqsUpTo({1, 2}, MaxGroupLen)}

DictValueGroups == SeqsUpTo({300, 400}, MaxDictN)

InitDictCall ==
    /\ \E k \in 0..MaxK :
          /\ cg_in \in [1..k -> DictConnectionGroups]
          /\ vg_in \in [1..k -> DictValueGroups]
    /\ response_dict = NoDict
    /\ InitDb
    /\ BVP_MODE = ""

GroupsToDictCall ==
    /\ response_dict = NoDict
    /\ response_dict' = groups_to_dict(cg_in, vg_in)
    /\ UNCHANGED <<cg_in, vg_in>>
    /\ UNCHANGED dbVars

NextDict == GroupsToDictCall

SpecDict == InitDictCall /\ [][NextDict]_vars

\* The distinct value groups of the call, in the order of first occurrence
DistinctValueGroups == Distinct(vg_in, 1, <<>>)

\* The number of connections of the groups whose value group is v
RECURSIVE ConnectionsWith(_, _)
ConnectionsWith(v, g) ==
    IF g > Len(vg_in) THEN 0
    ELSE (IF vg_in[g] = v THEN PyLen(cg_in[g]) ELSE 0) + ConnectionsWith(v, g + 1)

AllSingletonsWithEqualValues ==
    /\ Len(cg_in) >= 2
    /\ \A g \in 1..Len(cg_in) : PyLen(cg_in[g]) = 1 /\ vg_in[g] = vg_in[1]

\* C7: k >= 2 singleton connection groups [[c1],...,[ck]] with equal value
\* groups give {connections: [c1,...,ck], values: v}, the connections a flat
\* list of the identifiers in their original order
C7_FlatMerge ==
    (response_dict # NoDict /\ AllSingletonsWithEqualValues) =>
        response_dict =
            [shape |-> "flat",
             entry |-> <<[key |-> "connections",
                          conn |-> PyList([g \in 1..Len(cg_in) |-> cg_in[g].items[1]]),
                          values |-> vg_in[1]]>>]

====
